---------------------------- MODULE Spec2Model ----------------------------
(***************************************************************************)
(* Model of src/src/compiler.ts: the Compiler class that lowers an         *)
(* expression AST to the text of a JavaScript function and instantiates it *)
(* with `new Function`.                                                    *)
(*                                                                         *)
(* The emitted text is represented by the tree the JavaScript grammar      *)
(* parses it into.  Where the compiler parenthesises a fragment the tree   *)
(* is built directly; where it concatenates without parentheses            *)
(* (callee + '&&' + callee + '.call(' ...) the tree is built by the        *)
(* operators below that apply JavaScript's precedence to the concatenated  *)
(* text.  Literal tokens are kept as character sequences and are lexed     *)
(* when the function text is parsed and evaluated.                         *)
(***************************************************************************)
EXTENDS Integers, Sequences, FiniteSets, TLC

VARIABLES
  ast,      \* the AST handed to compile (owned by the caller, never mutated)
  ctx,      \* the context of the last invocation of a compiled unit
  state,    \* Compiler.state: [id, vars, body]
  units,    \* the compiled units produced so far, in order
  res       \* the outcome of the last invocation

vars == <<ast, ctx, state, units, res>>

(***************************************************************************)
(* JavaScript values                                                       *)
(***************************************************************************)
Undef == [t |-> "undefined"]
Null == [t |-> "null"]
Bool(b) == [t |-> "bool", b |-> b]
Num(n) == [t |-> "num", n |-> n]
Str(s) == [t |-> "str", s |-> s]
\* an object of the context (id > 0) or one built by a literal (id = 0)
Obj(id, fields) == [t |-> "obj", id |-> id, f |-> fields]
Arr(elems) == [t |-> "arr", elems |-> elems]
Fn(name) == [t |-> "fn", name |-> name]
\* the runtime's Function constructor
FunctionCtor == Fn("Function")

Range(f) == {f[i] : i \in DOMAIN f}

IsNullish(v) == v.t \in {"undefined", "null"}

\* ToBoolean
Truthy(v) ==
  CASE v.t \in {"undefined", "null"} -> FALSE
    [] v.t = "bool" -> v.b
    [] v.t = "num" -> v.n # 0
    [] v.t = "str" -> Len(v.s) > 0
    [] OTHER -> TRUE

\* o.name for a non-nullish o: own fields of objects, `length` of strings
\* and arrays; no other inherited property is modelled
GetName(o, name) ==
  CASE o.t = "obj" -> IF name \in DOMAIN o.f THEN o.f[name] ELSE Undef
    [] o.t = "str" -> IF name = "length" THEN Num(Len(o.s)) ELSE Undef
    [] o.t = "arr" -> IF name = "length" THEN Num(Len(o.elems)) ELSE Undef
    [] OTHER -> Undef

\* o[k] for a non-nullish o and a key value k
GetIndex(o, k) ==
  CASE k.t = "str" /\ Len(k.s) = 1 -> GetName(o, k.s[1])
    [] k.t = "num" /\ o.t = "arr" ->
         IF k.n + 1 \in 1..Len(o.elems) THEN o.elems[k.n + 1] ELSE Undef
    [] OTHER -> Undef

\* l === r
StrictEq(l, r) ==
  CASE l.t # r.t -> FALSE
    [] l.t = "obj" -> l.id > 0 /\ l.id = r.id
    [] l.t = "arr" -> FALSE
    [] OTHER -> l = r

(***************************************************************************)
(* AST nodes, as the parser produces them                                  *)
(***************************************************************************)
Program(body) == [type |-> "Program", body |-> body]
Literal(value) == [type |-> "Literal", value |-> value]
Identifier(name) == [type |-> "Identifier", name |-> name]
MemberExpression(object, property, computed) ==
  [type |-> "MemberExpression", object |-> object, property |-> property,
   computed |-> computed]
CallExpression(callee, arguments) ==
  [type |-> "CallExpression", callee |-> callee, arguments |-> arguments]
LogicalExpression(operator, left, right) ==
  [type |-> "LogicalExpression", operator |-> operator, left |-> left,
   right |-> right]
ConditionalExpression(test, consequent, alternate) ==
  [type |-> "ConditionalExpression", test |-> test, consequent |-> consequent,
   alternate |-> alternate]
BinaryExpression(operator, left, right) ==
  [type |-> "BinaryExpression", operator |-> operator, left |-> left,
   right |-> right]
UnaryExpression(operator, argument) ==
  [type |-> "UnaryExpression", operator |-> operator, argument |-> argument]
ArrayExpression(elements) == [type |-> "ArrayExpression", elements |-> elements]
ObjectExpression(properties) ==
  [type |-> "ObjectExpression", properties |-> properties]
Property(key, value) == [key |-> key, value |-> value]
\* a hole of a sparse array literal (a falsy entry of ast.elements)
Hole == [type |-> "Hole"]

(***************************************************************************)
(* Emitted text, as parsed                                                 *)
(***************************************************************************)
TCtx == [e |-> "ctx"]
TSlot(v) == [e |-> "slot", v |-> v]
TLit(text) == [e |-> "lit", text |-> text]
TMember(o, name) == [e |-> "member", o |-> o, name |-> name]
TIndex(o, k) == [e |-> "index", o |-> o, k |-> k]
TUnary(op, a) == [e |-> "unary", op |-> op, a |-> a]
TBinary(op, l, r) == [e |-> "binary", op |-> op, l |-> l, r |-> r]
TAnd(l, r) == [e |-> "and", l |-> l, r |-> r]
TCall(fn, this, args) == [e |-> "call", fn |-> fn, this |-> this, args |-> args]
TArray(elems) == [e |-> "array", elems |-> elems]
TObject(props) == [e |-> "object", props |-> props]
THole == [e |-> "hole"]
\* text that is no JavaScript expression (a digit followed by `.call`)
TSyntaxError == [e |-> "syntaxerror"]

SAssign(v, right) == [s |-> "assign", v |-> v, right |-> right]
SIf(test, consequent) == [s |-> "if", test |-> test, consequent |-> consequent]
SGuard(arg) == [s |-> "guard", arg |-> arg]
SExpr(x) == [s |-> "expr", x |-> x]
SReturn(x) == [s |-> "return", x |-> x]

(***************************************************************************)
(* Literal tokens                                                          *)
(***************************************************************************)
Digits == <<"0", "1", "2", "3", "4", "5", "6", "7", "8", "9">>

\* '' + value, for the literal values that are no strings
ToText(value) ==
  CASE value.t = "num" -> <<Digits[value.n + 1]>>
    [] value.t = "bool" ->
         IF value.b THEN <<"t", "r", "u", "e">> ELSE <<"f", "a", "l", "s", "e">>
    [] value.t = "null" -> <<"n", "u", "l", "l">>
    [] OTHER -> <<"u", "n", "d", "e", "f", "i", "n", "e", "d">>

(***************************************************************************)
(* Compiler helpers (compiler.ts 164-187)                                  *)
(***************************************************************************)
NewState == [id |-> 0, vars |-> <<>>, body |-> <<>>]

\* 'v' + this.state.id++, pushed to this.state.vars
variableDeclaration(st) ==
  [variable |-> <<"v", st.id>>,
   st |-> [st EXCEPT !.id = st.id + 1,
                     !.vars = Append(st.vars, <<"v", st.id>>)]]

\* a lowering that emits the assignment without its guard
if_Unguarded(test, consequent) == consequent

if_(test, consequent) == SIf(test, consequent)

not(x) == TUnary("!", x)

assign(left, right) == SAssign(left, right)

member(left, right, computed) ==
  IF computed THEN TIndex(left, right) ELSE TMember(left, right)

push(st, stmt) == [st EXCEPT !.body = Append(st.body, stmt)]

\* text + '.call(' this, args ')': the postfix binds to the last operand of
\* the text it is appended to
RECURSIVE DotCall(_, _, _)
DotCall(text, this, args) ==
  CASE text.e = "and" -> TAnd(text.l, DotCall(text.r, this, args))
    [] text.e = "binary" ->
         TBinary(text.op, text.l, TCall(text.r, this, args))
    [] text.e = "unary" -> TUnary(text.op, TCall(text.a, this, args))
    [] text.e = "lit" /\ text.text[1] \in Range(Digits) -> TSyntaxError
    [] OTHER -> TCall(text, this, args)

\* a call emitted without the `callee &&` in front of it
AndTextUnguarded(left, right) == right

\* left + '&&' + right: && associates to the left
RECURSIVE AndText(_, _)
AndText(left, right) ==
  IF right.e = "and"
    THEN TAnd(AndText(left, right.l), right.r)
    ELSE TAnd(left, right)

(***************************************************************************)
(* Compiler.recurse (compiler.ts 33-162)                                   *)
(*                                                                         *)
(* recurse(node, st, sink) is [text, st, callContext]: the returned text,  *)
(* the compiler state after the walk, and what the node passed to          *)
(* setCallContext ("none" when it was not called; sink says whether the    *)
(* caller supplied the callback).                                          *)
(***************************************************************************)
NoContext == [e |-> "none"]

Walked(text, st) == [text |-> text, st |-> st, callContext |-> NoContext]

RECURSIVE recurse(_, _, _)
RECURSIVE recurseAll(_, _, _)
RECURSIVE recurseElements(_, _, _)
RECURSIVE recurseProperties(_, _, _)
RECURSIVE recurseStatements(_, _, _)

\* ast.arguments.map(arg => this.recurse(arg)), from index i on
recurseAll(nodes, i, st) ==
  IF i > Len(nodes)
    THEN [texts |-> <<>>, st |-> st]
    ELSE LET first == recurse(nodes[i], st, FALSE)
             rest == recurseAll(nodes, i + 1, first.st)
         IN  [texts |-> <<first.text>> \o rest.texts, st |-> rest.st]

\* the loop over ast.elements: a falsy entry leaves elements[i] unset
recurseElements(nodes, i, st) ==
  IF i > Len(nodes)
    THEN [texts |-> <<>>, st |-> st]
    ELSE IF nodes[i].type = "Hole"
      THEN LET rest == recurseElements(nodes, i + 1, st)
           IN  [texts |-> IF rest.texts = <<>> THEN <<>>
                                               ELSE <<THole>> \o rest.texts,
                st |-> rest.st]
      ELSE LET first == recurse(nodes[i], st, FALSE)
               rest == recurseElements(nodes, i + 1, first.st)
           IN  [texts |-> <<first.text>> \o rest.texts, st |-> rest.st]

\* ast.properties.map(property => key + ':' + value)
recurseProperties(props, i, st) ==
  IF i > Len(props)
    THEN [texts |-> <<>>, st |-> st]
    ELSE LET isName == props[i].key.type = "Identifier"
             key == IF isName THEN Walked(TLit(<<props[i].key.name>>), st)
                              ELSE recurse(props[i].key, st, FALSE)
             value == recurse(props[i].value, key.st, FALSE)
             rest == recurseProperties(props, i + 1, value.st)
         IN  [texts |-> <<[name |-> isName, key |-> key.text,
                           value |-> value.text]>> \o rest.texts,
              st |-> rest.st]

\* the Program loop: this.state.body.push(this.recurse(ast.body[i]), ';')
\* (a Program holds at least one statement)
recurseStatements(nodes, i, st) ==
  IF i > Len(nodes) - 1
    THEN st
    ELSE LET one == recurse(nodes[i], st, FALSE)
         IN  recurseStatements(nodes, i + 1, push(one.st, SExpr(one.text)))

recurse(node, st, sink) ==
  CASE node.type = "Program" ->
         LET init == recurseStatements(node.body, 1, st)
             last == recurse(node.body[Len(node.body)], init, FALSE)
         IN  Walked(NoContext, push(last.st, SReturn(last.text)))
    [] node.type = "ConditionalExpression" ->
         LET variable == variableDeclaration(st)
             testVariable == variableDeclaration(variable.st)
             test == recurse(node.test, testVariable.st, FALSE)
             s1 == push(test.st, assign(testVariable.variable, test.text))
             consequent == recurse(node.consequent, s1, FALSE)
             s2 == push(consequent.st,
                        if_(TSlot(testVariable.variable),
                            assign(variable.variable, consequent.text)))
             alternate == recurse(node.alternate, s2, FALSE)
             s3 == push(alternate.st,
                        if_(not(TSlot(testVariable.variable)),
                            assign(variable.variable, alternate.text)))
         IN  Walked(TSlot(variable.variable), s3)
    [] node.type = "LogicalExpression" ->
         LET variable == variableDeclaration(st)
             left == recurse(node.left, variable.st, FALSE)
             s1 == push(left.st, assign(variable.variable, left.text))
             right == recurse(node.right, s1, FALSE)
             s2 == push(right.st,
                        if_(IF node.operator = "&&"
                              THEN TSlot(variable.variable)
                              ELSE not(TSlot(variable.variable)),
                            assign(variable.variable, right.text)))
         IN  Walked(TSlot(variable.variable), s2)
    [] node.type = "BinaryExpression" ->
         LET left == recurse(node.left, st, FALSE)
             right == recurse(node.right, left.st, FALSE)
         IN  Walked(TBinary(node.operator, left.text, right.text), right.st)
    [] node.type = "UnaryExpression" ->
         LET argument == recurse(node.argument, st, FALSE)
         IN  Walked(TUnary(node.operator, argument.text), argument.st)
    [] node.type = "CallExpression" ->
         LET callee == recurse(node.callee, st, TRUE)
             callContext == IF callee.callContext = NoContext
                              THEN TCtx ELSE callee.callContext
             args == recurseAll(node.arguments, 1, callee.st)
             s1 == push(args.st, SGuard(callee.text))
         IN  Walked(AndText(callee.text,
                            DotCall(callee.text, callContext, args.texts)),
                    s1)
    [] node.type = "MemberExpression" ->
         LET variable == variableDeclaration(st)
             left == recurse(node.object, variable.st, FALSE)
             right == IF node.computed
                        THEN recurse(node.property, left.st, FALSE)
                        ELSE Walked(node.property.name, left.st)
             s1 == push(right.st,
                        if_(left.text,
                            assign(variable.variable,
                                   member(left.text, right.text,
                                          node.computed))))
         IN  [text |-> TSlot(variable.variable), st |-> s1,
              callContext |-> IF sink THEN left.text ELSE NoContext]
    [] node.type = "ArrayExpression" ->
         LET elements == recurseElements(node.elements, 1, st)
         IN  Walked(TArray(elements.texts), elements.st)
    [] node.type = "ObjectExpression" ->
         LET properties == recurseProperties(node.properties, 1, st)
         IN  Walked(TObject(properties.texts), properties.st)
    [] node.type = "Identifier" ->
         LET variable == variableDeclaration(st)
             s1 == push(variable.st,
                        if_(TCtx, assign(variable.variable,
                                         member(TCtx, node.name, FALSE))))
         IN  Walked(TSlot(variable.variable), s1)
    [] node.type = "Literal" ->
         IF node.value.t = "str"
           THEN Walked(TLit(<<"'">> \o node.value.s \o <<"'">>), st)
           ELSE Walked(TLit(ToText(node.value)), st)

(***************************************************************************)
(* Compiler.compile (compiler.ts 16-31)                                    *)
(***************************************************************************)
\* the text handed to new Function: 'var ' vars ';' body, inside
\* function(ctx){...}
fnBody(st) == [vars |-> st.vars, body |-> st.body]

\* a compile that keeps the slot counter of the compilation before it
compileKeepingId(node, old) ==
  recurse(node, [NewState EXCEPT !.id = old.id], FALSE).st

\* this.state = {id: 0, vars: [], body: []}; this.recurse(ast): the state
\* left by an earlier compilation (old) is replaced before the walk
compile(node, old) == recurse(node, NewState, FALSE).st

(***************************************************************************)
(* Parsing the function text (new Function, compiler.ts 30)                *)
(***************************************************************************)
SyntaxError == [t |-> "syntaxerror"]

\* a single-quoted string literal from position i on: a backslash takes the
\* next character as it is, a quote ends the literal, and text after the
\* closing quote is no part of the token
RECURSIVE LexString(_, _, _)
LexString(text, i, acc) ==
  IF i > Len(text) THEN SyntaxError
  ELSE IF text[i] = "\\"
    THEN IF i + 1 > Len(text) THEN SyntaxError
         ELSE LexString(text, i + 2, Append(acc, text[i + 1]))
  ELSE IF text[i] = "'"
    THEN IF i = Len(text) THEN Str(acc) ELSE SyntaxError
  ELSE LexString(text, i + 1, Append(acc, text[i]))

\* the value a literal token denotes
LexLiteral(text) ==
  CASE text[1] = "'" -> LexString(text, 2, <<>>)
    [] text = <<"t", "r", "u", "e">> -> Bool(TRUE)
    [] text = <<"f", "a", "l", "s", "e">> -> Bool(FALSE)
    [] text = <<"n", "u", "l", "l">> -> Null
    [] Len(text) = 1 /\ text[1] \in Range(Digits) ->
         Num((CHOOSE d \in DOMAIN Digits : Digits[d] = text[1]) - 1)
    [] OTHER -> Undef

RECURSIVE TextParses(_)
TextParses(text) ==
  CASE text.e = "lit" -> LexLiteral(text.text) # SyntaxError
    [] text.e = "syntaxerror" -> FALSE
    [] text.e = "member" -> TextParses(text.o)
    [] text.e = "index" -> TextParses(text.o) /\ TextParses(text.k)
    [] text.e = "unary" -> TextParses(text.a)
    [] text.e \in {"binary", "and"} -> TextParses(text.l) /\ TextParses(text.r)
    [] text.e = "call" ->
         /\ TextParses(text.fn) /\ TextParses(text.this)
         /\ \A i \in DOMAIN text.args : TextParses(text.args[i])
    [] text.e = "array" -> \A i \in DOMAIN text.elems : TextParses(text.elems[i])
    [] text.e = "object" ->
         \A i \in DOMAIN text.props :
           /\ text.props[i].name \/ TextParses(text.props[i].key)
           /\ TextParses(text.props[i].value)
    [] OTHER -> TRUE

StatementParses(stmt) ==
  CASE stmt.s = "assign" -> TextParses(stmt.right)
    [] stmt.s = "if" -> TextParses(stmt.test) /\ TextParses(stmt.consequent.right)
    [] stmt.s = "guard" -> TextParses(stmt.arg)
    [] OTHER -> TextParses(stmt.x)

\* new Function accepts the text
Parses(fn) == \A i \in DOMAIN fn.body : StatementParses(fn.body[i])

(***************************************************************************)
(* The functions a context can hold.  HostReturn(name, n) is what the n-th *)
(* invocation of the function returns.                                     *)
(***************************************************************************)
HostFns == {"g", "mk", "flip", "Function", "made"}

HostReturn(name, n) ==
  CASE name = "g" -> Num(1)
    \* a factory: a new object on every invocation
    [] name = "mk" -> Obj(10 + n, [b |-> Num(7), g |-> Fn("g")])
    \* returns a harmless function first, the Function constructor afterwards
    [] name = "flip" -> IF n = 1 THEN Fn("g") ELSE FunctionCtor
    \* the Function constructor builds a function from text
    [] name = "Function" -> Fn("made")
    [] OTHER -> Undef

(***************************************************************************)
(* Evaluating the function text with a context c                           *)
(*                                                                         *)
(* A run state is [slots, cnt, trace, fault, faultAt]: the function's local *)
(* variables, the number of invocations of each host function, the        *)
(* property reads, invocations and guard checks in the order they happen   *)
(* (each with the index `at` of the statement that performed it), and the  *)
(* exception thrown, if any, with the statement that threw it.             *)
(***************************************************************************)
Event(k, key, this, at) == [k |-> k, key |-> key, this |-> this, at |-> at]

Throw(rs, what, at) == [rs EXCEPT !.fault = what, !.faultAt = at]

Done(v, rs) == [v |-> v, rs |-> rs]

\* Compiler.ensureSafeFn (compiler.ts 189-193)
ensureSafeFn(callee, rs, at) ==
  LET seen == [rs EXCEPT !.trace = Append(@, Event("guard", "", Undef, at))]
  IN  IF callee.t = "fn" /\ callee = FunctionCtor
        THEN Throw(seen, "forbidden", at)
        ELSE seen

\* fn.call(this, args): the invocation itself
Invoke(fn, this, rs, at) ==
  IF fn.t # "fn"
    THEN Done(Undef, Throw(rs, "TypeError", at))
    ELSE LET n == rs.cnt[fn.name] + 1
         IN  Done(HostReturn(fn.name, n),
                  [rs EXCEPT !.cnt[fn.name] = n,
                             !.trace = Append(@, Event("call", fn.name, this, at))])

\* (o).name and (o)[k]
Read(o, key, isIndex, rs, at) ==
  IF IsNullish(o)
    THEN Done(Undef, Throw(rs, "TypeError", at))
    ELSE Done(IF isIndex THEN GetIndex(o, key) ELSE GetName(o, key),
              [rs EXCEPT !.trace =
                 Append(@, Event("read",
                                 IF ~isIndex THEN key
                                 ELSE IF key.t = "str" /\ Len(key.s) = 1
                                   THEN key.s[1] ELSE "#",
                                 Undef, at))])

RECURSIVE Eval(_, _, _, _)
RECURSIVE EvalAll(_, _, _, _, _)
RECURSIVE EvalProps(_, _, _, _, _)

EvalAll(texts, i, rs, c, at) ==
  IF i > Len(texts) \/ rs.fault # "none"
    THEN [vs |-> <<>>, rs |-> rs]
    ELSE LET first == Eval(texts[i], rs, c, at)
             rest == EvalAll(texts, i + 1, first.rs, c, at)
         IN  [vs |-> <<first.v>> \o rest.vs, rs |-> rest.rs]

EvalProps(props, i, rs, c, at) ==
  IF i > Len(props) \/ rs.fault # "none"
    THEN [fields |-> <<>>, rs |-> rs]
    ELSE LET key == IF props[i].name
                      THEN Done(Str(props[i].key.text), rs)
                      ELSE Eval(props[i].key, rs, c, at)
             value == Eval(props[i].value, key.rs, c, at)
             rest == EvalProps(props, i + 1, value.rs, c, at)
         IN  [fields |-> <<<<key.v, value.v>>>> \o rest.fields, rs |-> rest.rs]

\* the object a literal builds: a later property of the same key wins
ObjectOf(fields) ==
  LET keys == {fields[i][1].s[1] : i \in {j \in DOMAIN fields :
                  fields[j][1].t = "str" /\ Len(fields[j][1].s) = 1}}
      lastOf(k) == CHOOSE i \in DOMAIN fields :
                     /\ fields[i][1].t = "str" /\ fields[i][1].s = <<k>>
                     /\ \A j \in DOMAIN fields :
                          (fields[j][1].t = "str" /\ fields[j][1].s = <<k>>) => j <= i
  IN  Obj(0, [k \in keys |-> fields[lastOf(k)][2]])

Eval(text, rs, c, at) ==
  IF rs.fault # "none" THEN Done(Undef, rs)
  ELSE CASE text.e = "ctx" -> Done(c, rs)
    [] text.e = "slot" ->
         IF text.v \in DOMAIN rs.slots
           THEN Done(rs.slots[text.v], rs)
           ELSE Done(Undef, Throw(rs, "ReferenceError", at))
    [] text.e = "lit" -> Done(LexLiteral(text.text), rs)
    [] text.e = "member" ->
         LET o == Eval(text.o, rs, c, at)
         IN  IF o.rs.fault # "none" THEN o
             ELSE Read(o.v, text.name, FALSE, o.rs, at)
    [] text.e = "index" ->
         LET o == Eval(text.o, rs, c, at)
             k == Eval(text.k, o.rs, c, at)
         IN  IF k.rs.fault # "none" THEN k
             ELSE Read(o.v, k.v, TRUE, k.rs, at)
    [] text.e = "unary" ->
         LET a == Eval(text.a, rs, c, at)
         IN  Done(Bool(~Truthy(a.v)), a.rs)
    [] text.e = "binary" ->
         LET l == Eval(text.l, rs, c, at)
             r == Eval(text.r, l.rs, c, at)
         IN  Done(Bool(StrictEq(l.v, r.v)), r.rs)
    [] text.e = "and" ->
         LET l == Eval(text.l, rs, c, at)
         IN  IF l.rs.fault # "none" \/ ~Truthy(l.v) THEN l
             ELSE Eval(text.r, l.rs, c, at)
    [] text.e = "call" ->
         LET fn == Eval(text.fn, rs, c, at)
         IN  IF fn.rs.fault # "none" THEN fn
             ELSE IF IsNullish(fn.v) THEN Done(Undef, Throw(fn.rs, "TypeError", at))
             ELSE LET this == Eval(text.this, fn.rs, c, at)
                      args == EvalAll(text.args, 1, this.rs, c, at)
                  IN  IF args.rs.fault # "none" THEN Done(Undef, args.rs)
                      ELSE Invoke(fn.v, this.v, args.rs, at)
    [] text.e = "array" ->
         LET elems == EvalAll(text.elems, 1, rs, c, at)
         IN  Done(Arr(elems.vs), elems.rs)
    [] text.e = "object" ->
         LET props == EvalProps(text.props, 1, rs, c, at)
         IN  IF props.rs.fault # "none" THEN Done(Undef, props.rs)
             ELSE Done(ObjectOf(props.fields), props.rs)
    [] OTHER -> Done(Undef, rs)

\* slot = right;
Store(stmt, rs, c, at) ==
  LET right == Eval(stmt.right, rs, c, at)
  IN  IF right.rs.fault # "none" THEN right.rs
      ELSE [right.rs EXCEPT !.slots =
              [v \in DOMAIN right.rs.slots \cup {stmt.v} |->
                 IF v = stmt.v THEN right.v ELSE right.rs.slots[v]]]

\* the statements from index i on; the result is [v, rs] of the return
RECURSIVE Exec(_, _, _, _)
Exec(body, i, rs, c) ==
  IF i > Len(body) \/ rs.fault # "none" THEN Done(Undef, rs)
  ELSE LET stmt == body[i] IN
    CASE stmt.s = "assign" -> Exec(body, i + 1, Store(stmt, rs, c, i), c)
      [] stmt.s = "if" ->
           LET test == Eval(stmt.test, rs, c, i)
           IN  IF test.rs.fault = "none" /\ Truthy(test.v)
                 THEN Exec(body, i + 1, Store(stmt.consequent, test.rs, c, i), c)
                 ELSE Exec(body, i + 1, test.rs, c)
      [] stmt.s = "guard" ->
           LET arg == Eval(stmt.arg, rs, c, i)
           IN  IF arg.rs.fault # "none" THEN Done(Undef, arg.rs)
               ELSE Exec(body, i + 1, ensureSafeFn(arg.v, arg.rs, i), c)
      [] stmt.s = "expr" -> Exec(body, i + 1, Eval(stmt.x, rs, c, i).rs, c)
      [] OTHER -> Eval(stmt.x, rs, c, i)

\* one invocation of the compiled unit: function(ctx){var ...; body}
Call(fn, c) ==
  LET rs0 == [slots |-> [v \in Range(fn.vars) |-> Undef],
              cnt |-> [h \in HostFns |-> 0],
              trace |-> <<>>,
              fault |-> "none",
              faultAt |-> 0]
      out == Exec(fn.body, 1, rs0, c)
  IN  [v |-> IF out.rs.fault = "none" THEN out.v ELSE Undef,
       fault |-> out.rs.fault,
       faultAt |-> out.rs.faultAt,
       trace |-> out.rs.trace]

(***************************************************************************)
(* Inputs: the ASTs a parser hands to compile, and the contexts a host     *)
(* hands to a compiled unit                                                *)
(***************************************************************************)
\* postfix operators applied to an identifier: .b .g and ()
MaxPostfix == 3
\* postfix operators in the operands of the composite expressions
MaxOperand == 2
\* length of the string literals
MaxStrLen == 2
\* compilations on one Compiler instance
MaxCompiles == 3

Chars == {"a", "'", "\\"}

RECURSIVE StringsUpTo(_)
StringsUpTo(n) ==
  IF n = 0 THEN {<<>>}
  ELSE StringsUpTo(n - 1) \cup
       {Append(s, c) : s \in {t \in StringsUpTo(n - 1) : Len(t) = n - 1},
                       c \in Chars}

Name(n) == Identifier(n)

Postfix(S) ==
  {MemberExpression(x, Name(p), FALSE) : x \in S, p \in {"b", "g"}}
    \cup {CallExpression(x, <<>>) : x \in S}

RECURSIVE Chains(_)
Chains(n) ==
  IF n = 0 THEN {Name("a"), Name("f")}
  ELSE Chains(n - 1) \cup Postfix(Chains(n - 1))

Literals ==
  {Literal(Str(s)) : s \in StringsUpTo(MaxStrLen)}
    \cup {Literal(Num(1)), Literal(Bool(TRUE)), Literal(Bool(FALSE)),
          Literal(Null)}

\* member chains with computed keys and the length of a string
ComputedChains ==
  {MemberExpression(Name("a"), Literal(Str(<<"b">>)), TRUE),
   MemberExpression(Name("a"), Name("k"), TRUE),
   MemberExpression(MemberExpression(Name("a"), Name("k"), TRUE),
                    Name("b"), FALSE),
   MemberExpression(Name("a"), Name("length"), FALSE),
   MemberExpression(MemberExpression(Name("a"), Name("b"), FALSE),
                    Name("length"), FALSE)}

Operands == Chains(MaxOperand)

F0 == CallExpression(Name("f"), <<>>)

Composites ==
  {LogicalExpression(op, l, x) :
     op \in {"&&", "||"}, l \in {Name("a")}, x \in Operands}
    \cup {ConditionalExpression(Name("a"), x, Literal(Num(1))) : x \in Operands}
    \cup {ConditionalExpression(Name("a"), Literal(Num(1)), x) : x \in Operands}
    \cup {ConditionalExpression(x, Name("a"), Literal(Num(1))) : x \in Operands}
    \cup {BinaryExpression("===", F0, x) : x \in Operands}
    \cup {BinaryExpression("===", x, F0) : x \in Operands}
    \cup {UnaryExpression("!", x) : x \in Operands}
    \cup {ArrayExpression(<<F0, x>>) : x \in Operands}
    \cup {ObjectExpression(<<Property(Name("b"), F0),
                             Property(Literal(Str(<<"g">>)), x)>>) :
            x \in Operands}
    \cup {CallExpression(Name("f"), <<x>>) : x \in Operands}
    \cup {CallExpression(MemberExpression(Name("a"), Name("g"), FALSE),
                         <<F0, x>>) : x \in Operands}
    \cup {ArrayExpression(<<Hole, Name("a"), Hole>>),
          ArrayExpression(<<Name("a"), Hole, F0>>),
          CallExpression(Literal(Num(1)), <<>>),
          CallExpression(Name("f"), <<CallExpression(Name("k"), <<>>)>>),
          BinaryExpression("===", F0,
            MemberExpression(
              CallExpression(MemberExpression(Name("a"), Name("g"), FALSE),
                             <<>>),
              Name("b"), FALSE))}

Expressions == Chains(MaxPostfix) \cup ComputedChains \cup Literals \cup Composites

\* the parser's root is a Program; the last statement is the result
ASTs ==
  {Program(<<x>>) : x \in Expressions}
    \cup {Program(<<F0, x>>) : x \in Operands}

\* the ASTs compiled repeatedly on one instance
TwiceASTs ==
  {Program(<<x>>) : x \in Chains(1) \cup
     {LogicalExpression("&&", Name("a"), F0),
      ConditionalExpression(Name("a"), F0, Name("f")),
      BinaryExpression("===", F0, Name("a"))}}

\* another AST, compiled in between
OtherAST == Program(<<MemberExpression(Name("k"), Name("b"), FALSE)>>)

Inner == Obj(2, [b |-> Obj(3, [b |-> Num(7), g |-> Fn("g")]), g |-> Fn("g")])

Contexts ==
  {Null,
   Undef,
   Obj(1, [a |-> Null, f |-> Null]),
   Obj(1, [a |-> Inner, f |-> Fn("mk"), k |-> Str(<<"b">>)]),
   Obj(1, [a |-> Bool(FALSE), f |-> Fn("flip"), k |-> Fn("g")]),
   Obj(1, [a |-> Str(<<>>), f |-> FunctionCtor, k |-> Str(<<"g">>)]),
   Obj(1, [a |-> Bool(TRUE), k |-> FunctionCtor]),
   Obj(1, [a |-> Obj(2, [b |-> Str(<<>>), g |-> FunctionCtor]), f |-> Fn("g")]),
   Obj(1, [a |-> Num(0), f |-> Num(1)])}

(***************************************************************************)
(* The state machine: a Compiler instance, the units it has produced and   *)
(* the last invocation of one of them                                      *)
(***************************************************************************)
NoResult ==
  [unit |-> 0, v |-> Undef, fault |-> "none", faultAt |-> 0, trace |-> <<>>]

Unit(node, st) ==
  [ast |-> node, fn |-> fnBody(st), ok |-> Parses(fnBody(st))]

\* a new Compiler; its state is assigned by compile before anything reads it
Init ==
  /\ ast \in ASTs
  /\ ctx = Undef
  /\ state = NewState
  /\ units = <<>>
  /\ res = NoResult

InitTwice ==
  /\ ast \in TwiceASTs
  /\ ctx = Undef
  /\ state = NewState
  /\ units = <<>>
  /\ res = NoResult

\* compile(ast) on a new instance
Compile ==
  /\ units = <<>>
  /\ state' = compile(ast, state)
  /\ units' = Append(units, Unit(ast, state'))
  /\ UNCHANGED <<ast, ctx, res>>

\* a further compile(a) on the same instance
Recompile(a) ==
  /\ Len(units) \in 1..(MaxCompiles - 1)
  /\ state' = compile(a, state)
  /\ units' = Append(units, Unit(a, state'))
  /\ UNCHANGED <<ast, ctx, res>>

\* units[i](c): new Function threw for a unit that is not ok, and there is
\* nothing to call
Invocation(i, c) ==
  /\ units[i].ok
  /\ ctx' = c
  /\ res' = [unit |-> i] @@ Call(units[i].fn, c)
  /\ UNCHANGED <<ast, state, units>>

Next ==
  \/ Compile
  \/ \E i \in DOMAIN units, c \in Contexts : Invocation(i, c)

NextTwice ==
  \/ Compile
  \/ \E a \in {ast, OtherAST} : Recompile(a)
  \/ \E i \in DOMAIN units, c \in Contexts : Invocation(i, c)

Spec == Init /\ [][Next]_vars

SpecTwice == InitTwice /\ [][NextTwice]_vars

(***************************************************************************)
(* The meaning of the source expression (spec 4.1): left-to-right,         *)
(* short-circuit evaluation with guarded member access and guarded calls.  *)
(* It is what the claims compare an invocation of a compiled unit with.    *)
(* A source run state is [cnt, trace, fault].                              *)
(***************************************************************************)
SrcDone(v, this, rs) == [v |-> v, this |-> this, rs |-> rs]

SrcThrow(rs, what) == [rs EXCEPT !.fault = what]

SrcEvent(rs, k, key, this) ==
  [rs EXCEPT !.trace = Append(@, Event(k, key, this, 0))]

RECURSIVE Src(_, _, _)
RECURSIVE SrcAll(_, _, _, _)
RECURSIVE SrcProps(_, _, _, _)

SrcAll(nodes, i, rs, c) ==
  IF i > Len(nodes) \/ rs.fault # "none"
    THEN [vs |-> <<>>, rs |-> rs]
    ELSE IF nodes[i].type = "Hole"
      THEN LET rest == SrcAll(nodes, i + 1, rs, c)
           IN  [vs |-> <<Undef>> \o rest.vs, rs |-> rest.rs]
      ELSE LET first == Src(nodes[i], rs, c)
               rest == SrcAll(nodes, i + 1, first.rs, c)
           IN  [vs |-> <<first.v>> \o rest.vs, rs |-> rest.rs]

SrcProps(props, i, rs, c) ==
  IF i > Len(props) \/ rs.fault # "none"
    THEN [fields |-> <<>>, rs |-> rs]
    ELSE LET key == IF props[i].key.type = "Identifier"
                      THEN SrcDone(Str(<<props[i].key.name>>), c, rs)
                      ELSE Src(props[i].key, rs, c)
             value == Src(props[i].value, key.rs, c)
             rest == SrcProps(props, i + 1, value.rs, c)
         IN  [fields |-> <<<<key.v, value.v>>>> \o rest.fields, rs |-> rest.rs]

Src(node, rs, c) ==
  IF rs.fault # "none" THEN SrcDone(Undef, c, rs)
  ELSE CASE node.type = "Program" ->
         LET init == SrcAll(SubSeq(node.body, 1, Len(node.body) - 1), 1, rs, c)
         IN  Src(node.body[Len(node.body)], init.rs, c)
    [] node.type = "Literal" -> SrcDone(node.value, c, rs)
    [] node.type = "Identifier" ->
         IF Truthy(c)
           THEN SrcDone(GetName(c, node.name), c,
                        SrcEvent(rs, "read", node.name, Undef))
           ELSE SrcDone(Undef, c, rs)
    [] node.type = "MemberExpression" ->
         LET o == Src(node.object, rs, c)
             k == IF node.computed THEN Src(node.property, o.rs, c)
                                   ELSE SrcDone(node.property.name, c, o.rs)
         IN  IF k.rs.fault # "none" \/ ~Truthy(o.v)
               THEN SrcDone(Undef, o.v, k.rs)
               ELSE IF node.computed
                 THEN SrcDone(GetIndex(o.v, k.v), o.v,
                              SrcEvent(k.rs, "read",
                                       IF k.v.t = "str" /\ Len(k.v.s) = 1
                                         THEN k.v.s[1] ELSE "#", Undef))
                 ELSE SrcDone(GetName(o.v, k.v), o.v,
                              SrcEvent(k.rs, "read", k.v, Undef))
    [] node.type = "CallExpression" ->
         LET callee == Src(node.callee, rs, c)
             this == IF node.callee.type = "MemberExpression"
                       THEN callee.this ELSE c
         IN  IF callee.rs.fault # "none" THEN SrcDone(Undef, c, callee.rs)
             ELSE IF callee.v = FunctionCtor
               THEN SrcDone(Undef, c, SrcThrow(callee.rs, "forbidden"))
             ELSE IF ~Truthy(callee.v) THEN SrcDone(callee.v, c, callee.rs)
             ELSE LET args == SrcAll(node.arguments, 1, callee.rs, c)
                  IN  IF args.rs.fault # "none" THEN SrcDone(Undef, c, args.rs)
                      ELSE IF callee.v.t # "fn"
                        THEN SrcDone(Undef, c, SrcThrow(args.rs, "TypeError"))
                      ELSE LET n == args.rs.cnt[callee.v.name] + 1
                           IN  SrcDone(HostReturn(callee.v.name, n), c,
                                 SrcEvent([args.rs EXCEPT !.cnt[callee.v.name] = n],
                                          "call", callee.v.name, this))
    [] node.type = "LogicalExpression" ->
         LET left == Src(node.left, rs, c)
         IN  IF left.rs.fault # "none" THEN left
             ELSE IF (node.operator = "&&") = Truthy(left.v)
               THEN Src(node.right, left.rs, c)
               ELSE SrcDone(left.v, c, left.rs)
    [] node.type = "ConditionalExpression" ->
         LET test == Src(node.test, rs, c)
         IN  IF test.rs.fault # "none" THEN test
             ELSE IF Truthy(test.v) THEN Src(node.consequent, test.rs, c)
             ELSE Src(node.alternate, test.rs, c)
    [] node.type = "BinaryExpression" ->
         LET left == Src(node.left, rs, c)
             right == Src(node.right, left.rs, c)
         IN  SrcDone(Bool(StrictEq(left.v, right.v)), c, right.rs)
    [] node.type = "UnaryExpression" ->
         LET argument == Src(node.argument, rs, c)
         IN  SrcDone(Bool(~Truthy(argument.v)), c, argument.rs)
    [] node.type = "ArrayExpression" ->
         LET elements == SrcAll(node.elements, 1, rs, c)
         IN  SrcDone(Arr(elements.vs), c, elements.rs)
    [] node.type = "ObjectExpression" ->
         LET props == SrcProps(node.properties, 1, rs, c)
         IN  IF props.rs.fault # "none" THEN SrcDone(Undef, c, props.rs)
             ELSE SrcDone(ObjectOf(props.fields), c, props.rs)
    [] OTHER -> SrcDone(Undef, c, rs)

SrcStart == [cnt |-> [h \in HostFns |-> 0], trace |-> <<>>, fault |-> "none"]

\* the source expression evaluated in context c: [v, fault, trace]
Source(node, c) ==
  LET out == Src(node, SrcStart, c)
  IN  [v |-> IF out.rs.fault = "none" THEN out.v ELSE Undef,
       fault |-> out.rs.fault,
       trace |-> out.rs.trace]

(***************************************************************************)
(* Vocabulary of the claims                                                *)
(***************************************************************************)
\* an invocation has happened
Called == res.unit > 0

\* the AST of the unit last invoked, its only statement, and its text
CalledAST == units[res.unit].ast
Root == CalledAST.body[Len(CalledAST.body)]
CalledBody == units[res.unit].fn.body

\* the number of statements the walk of x pushes
Pushed(x) == Len(compile(x, NewState).body)

\* the events of the invocation performed by statement i of the unit
At(i) == {n \in DOMAIN res.trace : res.trace[n].at = i}

IsCall(e) == e.k = "call"

\* reads and invocations in order, without the statement index
Effects(trace) ==
  LET kept == SelectSeq(trace, LAMBDA e : e.k # "guard")
  IN  [n \in DOMAIN kept |-> [kept[n] EXCEPT !.at = 0]]

\* how many times host function h was invoked
Invocations(trace, h) ==
  Cardinality({n \in DOMAIN trace : IsCall(trace[n]) /\ trace[n].key = h})

\* a chain of Identifier and MemberExpression nodes, with literal or
\* identifier keys
RECURSIVE IsChain(_)
IsChain(x) ==
  \/ x.type = "Identifier"
  \/ /\ x.type = "MemberExpression"
     /\ IsChain(x.object)
     /\ x.computed => x.property.type \in {"Identifier", "Literal"}

\* the value of a chain in context c, link by link: a link is followed when
\* it is non-nullish (strict) or when it is truthy (not strict)
RECURSIVE Leaf(_, _, _)
Leaf(x, c, strict) ==
  LET follows(o) == IF strict THEN ~IsNullish(o) ELSE Truthy(o)
  IN  IF x.type = "Literal" THEN x.value
      ELSE IF x.type = "Identifier"
        THEN IF follows(c) THEN GetName(c, x.name) ELSE Undef
      ELSE LET o == Leaf(x.object, c, strict)
           IN  IF ~follows(o) THEN Undef
               ELSE IF x.computed
                 THEN GetIndex(o, Leaf(x.property, c, strict))
                 ELSE GetName(o, x.property.name)

\* the invocation evaluated a program of the single statement of this type
RootIs(type) == Called /\ Len(CalledAST.body) = 1 /\ Root.type = type

\* the last invocation recorded in a trace
LastCall(trace) ==
  trace[CHOOSE n \in DOMAIN trace :
          /\ IsCall(trace[n])
          /\ \A m \in DOMAIN trace : IsCall(trace[m]) => m <= n]

(***************************************************************************)
(* Claims                                                                  *)
(***************************************************************************)

\* C1 (as claimed): for L && R and L || R, when the left operand decides
\* the result (&&: L falsy, ||: L truthy), no statement emitted while
\* lowering R performs a property read, an invocation or a guard check.
C1_RightOperandSkipped ==
  RootIs("LogicalExpression") =>
    LET decided == (Root.operator = "&&") # Truthy(Source(Root.left, ctx).v)
        first == Pushed(Root.left) + 2
        last == Len(CalledBody) - 2
    IN  decided => \A i \in first..last : At(i) = {}

\* C2 (as claimed): for T ? C : A, no statement emitted while lowering the
\* branch that is not selected performs a property read, an invocation or
\* a guard check.
C2_OnlySelectedBranch ==
  (RootIs("ConditionalExpression") /\ IsChain(Root.test)) =>
    LET nT == Pushed(Root.test)
        nC == Pushed(Root.consequent)
        nA == Pushed(Root.alternate)
        unselected == IF Truthy(Leaf(Root.test, ctx, FALSE))
                        THEN (nT + nC + 3)..(nT + nC + nA + 2)
                        ELSE (nT + 2)..(nT + nC + 1)
    IN  \A i \in unselected : At(i) = {}

\* C3 (as claimed): in no evaluation of a compiled unit is the Function
\* constructor the function that is invoked.
C3_FunctionNeverInvoked ==
  \A n \in DOMAIN res.trace :
    ~(IsCall(res.trace[n]) /\ res.trace[n].key = "Function")

\* C4 (as claimed): when the evaluation completes, the property reads and
\* invocations of the compiled unit happen in the order of left-to-right
\* evaluation of the source expression.
C4_SourceOrder ==
  (Called /\ res.fault = "none" /\ Source(CalledAST, ctx).fault = "none") =>
    Effects(res.trace) = Source(CalledAST, ctx).trace

\* C5 (as claimed): a chain of identifiers and member accesses never faults;
\* it evaluates to undefined when the context or an intermediate link is
\* null or undefined, and to the leaf value when every link is present.
C5_ChainPresentLinks ==
  (RootIs("Identifier") \/ RootIs("MemberExpression")) /\ IsChain(Root) =>
    res.fault = "none" /\ res.v = Leaf(Root, ctx, TRUE)

\* C5 (amended): a chain of identifiers and member accesses never faults;
\* it evaluates to undefined when the context or an intermediate link is
\* falsy, and to the leaf value when every link is truthy.
C5_ChainTruthyLinks ==
  (RootIs("Identifier") \/ RootIs("MemberExpression")) /\ IsChain(Root) =>
    res.fault = "none" /\ res.v = Leaf(Root, ctx, FALSE)

\* C5 witness: a chain of three links, all present, evaluated to its leaf
C5_Witness ==
  /\ RootIs("MemberExpression") /\ IsChain(Root)
  /\ Root.object.type = "MemberExpression"
  /\ res.v = Num(7)

\* a call whose callee, a chain, is null or undefined when it is evaluated
NullishCallee ==
  /\ RootIs("CallExpression") /\ IsChain(Root.callee)
  /\ IsNullish(Leaf(Root.callee, ctx, FALSE))

C7_Receiver ==
  LET src == Source(CalledAST, ctx)
  IN  (/\ RootIs("CallExpression")
       /\ res.fault = "none" /\ src.fault = "none"
       /\ src.trace # <<>> /\ IsCall(src.trace[Len(src.trace)])
       /\ Truthy(Src(Root.callee, SrcStart, ctx).v)) =>
        /\ \E n \in DOMAIN res.trace : IsCall(res.trace[n])
        /\ LastCall(res.trace).this = src.trace[Len(src.trace)].this

\* C8 (as claimed): a literal compiles, and the compiled unit returns the
\* literal's value in every context.
C8_LiteralValue ==
  \A i \in DOMAIN units :
    LET node == units[i].ast.body[Len(units[i].ast.body)]
    IN  (Len(units[i].ast.body) = 1 /\ node.type = "Literal") =>
          /\ units[i].ok
          /\ res.unit = i => (res.fault = "none" /\ res.v = node.value)

\* C9: units compiled from the same AST on one instance are the same
\* function, whatever was compiled before them; each declares the slots
\* v0, v1, ... of its own walk and nothing else, and the invocation of one
\* gives what any other of them gives in the same context.
C9_IndependentUnits ==
  /\ \A i \in DOMAIN units :
       /\ units[i].fn.vars =
            [k \in 1..Len(units[i].fn.vars) |-> <<"v", k - 1>>]
       /\ Len(units[i].fn.body) = Pushed(units[i].ast)
       /\ \A j \in DOMAIN units :
            units[i].ast = units[j].ast => units[i].fn = units[j].fn
  /\ Called =>
       /\ res.fault # "ReferenceError"
       /\ \A j \in DOMAIN units :
            units[j].ast = CalledAST =>
              res = [unit |-> res.unit] @@ Call(units[j].fn, ctx)

\* C9 witness: the AST compiled, another one compiled, the AST compiled
\* again on the same instance, and the last unit invoked
C9_Witness ==
  /\ Len(units) = 3
  /\ units[1].ast = units[3].ast
  /\ units[2].ast # units[1].ast
  /\ res.unit = 3

\* C10 (as claimed): when the evaluation completes, every host function is
\* invoked exactly as many times as the source expression invokes it.
C10_InvokedOnce ==
  (Called /\ res.fault = "none" /\ Source(CalledAST, ctx).fault = "none") =>
    \A h \in HostFns :
      Invocations(res.trace, h) = Invocations(Source(CalledAST, ctx).trace, h)

=============================================================================
